---- MODULE Spec2Model ----
(***************************************************************************)
(* LBT2PH: the four Grasshopper scripts of the repository as state         *)
(* machines.                                                               *)
(*                                                                         *)
(*   SpecConvert  helpers.convert_value_to_metric / find_input_string      *)
(*   SpecModel    helpers.add_to_HB_model                                  *)
(*   SpecShading  LBT2PH_ApplyWindowShadingFactors                         *)
(*   SpecReveals  LBT2PH_CreateWindowReveals                               *)
(*   SpecDHW      LBT2PH_DHW_Piping_Recirc                                 *)
(*                                                                         *)
(* The scripts are independent programs: each specification runs one of    *)
(* them and leaves the variables of the others at their idle value.        *)
(*                                                                         *)
(* Python values.  A string is the sequence of its characters.  A float is *)
(* an exact decimal: the sequence of its base-1000 limbs, least            *)
(* significant first, counting units of 10^-12 (so no product overflows).  *)
(* A value that may be of several Python types is a tagged record:         *)
(*   [t |-> "None"]  [t |-> "num", v |-> limbs]  [t |-> "str", s |-> chars]*)
(*   [t |-> "obj", o |-> a host object]  [t |-> "bool", b |-> TRUE or FALSE]*)
(***************************************************************************)
EXTENDS Integers, Sequences, FiniteSets, TLC

VARIABLES
    \* helpers.convert_value_to_metric: the arguments and the value returned
    _inputString, _outputUnit, converted,
    \* helpers.add_to_HB_model: the model's user_data, the arguments of the
    \* last call and the number of calls made
    hb_model_user_data, last_call, calls,
    \* LBT2PH_ApplyWindowShadingFactors: the inputs, the Honeybee objects (a
    \* room, an aperture and a dict are known by their place in these lists, so
    \* that two references to one object can be told from two equal objects),
    \* the script's variables, the runtime messages and the place reached
    _window_names, _winter_shading_factors, _summer_shading_factors, _HB_rooms,
    hb_rooms, hb_apertures, py_dicts,
    param_dict, HB_rooms_, shading_messages, shading_pc,
    \* LBT2PH_DHW_Piping_Recirc: the component's inputs, the five lists of
    \* get_values_from_Rhino, the index of the element it handles next, the
    \* pipe object, the runtime messages and the place reached
    pipe_geom_, pipe_diam_, insulThickness_, insulConductivity_, insulReflective_,
    insul_quality_, daily_period_,
    rhino_values, dhw_i, circulation_piping_, dhw_messages, dhw_pc,
    \* LBT2PH_CreateWindowReveals: the inputs (_HB_rooms, moveWindows_), the
    \* outputs, the branch counter, the face and aperture the loops are at and
    \* the place reached
    reveals_HB_rooms, moveWindows_,
    window_surrounds_, envelope_surfaces_, envelope_surfaces_punched,
    window_names_, window_surfaces_, reveals_HB_rooms_, count,
    reveals_face, reveals_aperture, reveals_pc

\* the value of a variable of a script that is not running, and of a result
\* not yet computed
Idle == [idle |-> TRUE]

varsConvert == <<_inputString, _outputUnit, converted>>
varsModel == <<hb_model_user_data, last_call, calls>>
varsShadingInputs ==
    <<_window_names, _winter_shading_factors, _summer_shading_factors, _HB_rooms>>
varsShadingHeap == <<hb_rooms, hb_apertures, py_dicts>>
varsShading ==
    <<varsShadingInputs, varsShadingHeap, param_dict, HB_rooms_, shading_messages, shading_pc>>
varsDHWInputs ==
    <<pipe_geom_, pipe_diam_, insulThickness_, insulConductivity_, insulReflective_,
      insul_quality_, daily_period_>>
varsDHW == <<varsDHWInputs, rhino_values, dhw_i, circulation_piping_, dhw_messages, dhw_pc>>
varsRevealsInputs == <<reveals_HB_rooms, moveWindows_>>
varsRevealsOutputs ==
    <<window_surrounds_, envelope_surfaces_, envelope_surfaces_punched,
      window_names_, window_surfaces_, reveals_HB_rooms_, count>>
varsReveals ==
    <<varsRevealsInputs, varsRevealsOutputs, reveals_face, reveals_aperture, reveals_pc>>
vars == <<varsConvert, varsModel, varsShading, varsDHW, varsReveals>>

ConvertIdle == _inputString = Idle /\ _outputUnit = Idle /\ converted = Idle
ModelIdle == hb_model_user_data = Idle /\ last_call = Idle /\ calls = 0
ShadingIdle ==
    /\ _window_names = Idle /\ _winter_shading_factors = Idle
    /\ _summer_shading_factors = Idle /\ _HB_rooms = Idle
    /\ hb_rooms = Idle /\ hb_apertures = Idle /\ py_dicts = Idle
    /\ param_dict = Idle /\ HB_rooms_ = Idle /\ shading_messages = Idle
    /\ shading_pc = "idle"
DHWIdle ==
    /\ pipe_geom_ = Idle /\ pipe_diam_ = Idle /\ insulThickness_ = Idle
    /\ insulConductivity_ = Idle /\ insulReflective_ = Idle
    /\ insul_quality_ = Idle /\ daily_period_ = Idle
    /\ rhino_values = Idle /\ dhw_i = 0 /\ circulation_piping_ = Idle
    /\ dhw_messages = Idle /\ dhw_pc = "idle"
RevealsIdle ==
    /\ reveals_HB_rooms = Idle /\ moveWindows_ = Idle
    /\ window_surrounds_ = Idle /\ envelope_surfaces_ = Idle
    /\ envelope_surfaces_punched = Idle /\ window_names_ = Idle
    /\ window_surfaces_ = Idle /\ reveals_HB_rooms_ = Idle /\ count = 0
    /\ reveals_face = 0 /\ reveals_aperture = 0 /\ reveals_pc = "idle"

----------------------------------------------------------------------------
(* Strings and numbers *)

PyNone == [t |-> "None"]
PyNum(limbs) == [t |-> "num", v |-> limbs]
PyStr(chars) == [t |-> "str", s |-> chars]
PyObj(o) == [t |-> "obj", o |-> o]
PyBool(b) == [t |-> "bool", b |-> b]

DigitChars == <<"0", "1", "2", "3", "4", "5", "6", "7", "8", "9">>

IsDigit(c) == \E i \in 1..Len(DigitChars) : DigitChars[i] = c

DigitVal(c) == (CHOOSE i \in 1..Len(DigitChars) : DigitChars[i] = c) - 1

RECURSIVE StripZeros(_)
\* the limbs without their most significant zeros: one form per number
StripZeros(limbs) ==
    IF limbs = <<>> THEN <<>>
    ELSE IF limbs[Len(limbs)] = 0 THEN StripZeros(SubSeq(limbs, 1, Len(limbs) - 1))
    ELSE limbs

RECURSIVE MulLimbs(_, _, _)
MulLimbs(k, limbs, carry) ==
    IF limbs = <<>>
    THEN IF carry = 0 THEN <<>>
         ELSE <<carry % 1000>> \o MulLimbs(k, <<>>, carry \div 1000)
    ELSE LET p == k * Head(limbs) + carry
         IN  <<p % 1000>> \o MulLimbs(k, Tail(limbs), p \div 1000)

\* w.aaabbbccc in units of 10^-9
Nano(w, a, b, c) == StripZeros(<<c, b, a, w % 1000, w \div 1000>>)

\* (milli * 10^-3) * (nano * 10^-9), in units of 10^-12
Times(milli, nano) == StripZeros(MulLimbs(milli, nano, 0))

\* the float of a number given in thousandths
NumOfMilli(milli) == Times(milli, Nano(1, 0, 0, 0))

RECURSIVE LStrip(_)
LStrip(s) == IF s # <<>> /\ Head(s) = " " THEN LStrip(Tail(s)) ELSE s

RECURSIVE RStrip(_)
RStrip(s) ==
    IF s # <<>> /\ s[Len(s)] = " " THEN RStrip(SubSeq(s, 1, Len(s) - 1)) ELSE s

RECURSIVE DigitsValue(_)
DigitsValue(s) ==
    IF s = <<>> THEN 0
    ELSE 10 * DigitsValue(SubSeq(s, 1, Len(s) - 1)) + DigitVal(s[Len(s)])

\* Python's float(<str>) on the strings of this model: blanks around the
\* text are dropped, then digits with at most one "." and at least one digit
\* (no sign, exponent, "inf" or "nan" occurs in the inputs drawn here, and
\* no more than three decimals).  ok = FALSE is a ValueError.
ParseFloat(chars) ==
    LET s    == RStrip(LStrip(chars))
        dots == {i \in 1..Len(s) : s[i] = "."}
        wellFormed == /\ \A i \in 1..Len(s) : IsDigit(s[i]) \/ s[i] = "."
                      /\ Cardinality(dots) <= 1
                      /\ \E i \in 1..Len(s) : IsDigit(s[i])
        dot  == IF dots = {} THEN Len(s) + 1 ELSE CHOOSE i \in dots : TRUE
        int  == SubSeq(s, 1, dot - 1)
        frac == SubSeq(s, dot + 1, Len(s))
        pad  == [i \in 1..3 |-> IF i <= Len(frac) THEN frac[i] ELSE "0"]
    IN  IF wellFormed /\ Len(frac) <= 3
        THEN [ok |-> TRUE, milli |-> 1000 * DigitsValue(int) + DigitsValue(pad)]
        ELSE [ok |-> FALSE, exc |-> "ValueError"]

\* Python's float(x): a number is itself, a string is parsed (ValueError),
\* None is a TypeError, and a host (.NET) object has no __float__, which the
\* handler of LBT2PH_DHW_Piping_Recirc.py:87 takes to be an AttributeError.
Float(x) ==
    CASE x.t = "num"  -> [ok |-> TRUE, v |-> x.v]
      [] x.t = "str"  -> LET p == ParseFloat(x.s)
                         IN  IF p.ok THEN [ok |-> TRUE, v |-> NumOfMilli(p.milli)]
                             ELSE [ok |-> FALSE, exc |-> "ValueError"]
      [] x.t = "None" -> [ok |-> FALSE, exc |-> "TypeError"]
      [] OTHER        -> [ok |-> FALSE, exc |-> "AttributeError"]

LowerToUpper ==
    [a |-> "A", b |-> "B", c |-> "C", d |-> "D", e |-> "E", f |-> "F", g |-> "G",
     h |-> "H", i |-> "I", j |-> "J", k |-> "K", l |-> "L", m |-> "M", n |-> "N",
     o |-> "O", p |-> "P", q |-> "Q", r |-> "R", s |-> "S", t |-> "T", u |-> "U",
     v |-> "V", w |-> "W", x |-> "X", y |-> "Y", z |-> "Z"]

\* str.upper()
Upper(chars) ==
    [i \in 1..Len(chars) |->
        IF chars[i] \in DOMAIN LowerToUpper THEN LowerToUpper[chars[i]] ELSE chars[i]]

\* sub in chars
Contains(chars, sub) ==
    \E i \in 0..(Len(chars) - Len(sub)) : SubSeq(chars, i + 1, i + Len(sub)) = sub

----------------------------------------------------------------------------
(* helpers.py: find_input_string, convert_value_to_metric *)

find_input_string(_in) ==
    LET evalString == Upper(_in)
    IN  CASE Contains(evalString, <<"F", "T">>) \/ Contains(evalString, <<"'">>) -> "FT"
          [] Contains(evalString, <<"I", "N">>) \/ Contains(evalString, <<"\"">>) -> "IN"
          [] Contains(evalString, <<"M", "M">>) -> "MM"
          [] Contains(evalString, <<"C", "M">>) -> "CM"
          [] Contains(evalString, <<"M">>) /\ ~Contains(evalString, <<"M", "M">>) -> "M"
          [] Contains(evalString, <<"I", "P">>) -> "IP"
          [] Contains(evalString, <<"F", "T", "3">>) -> "FT3"
          [] OTHER -> "SI"

\* the three length rows of the table share their keys
LengthRow(si, m, cm, mm, ft, inch) ==
    ("SI" :> si) @@ ("M" :> m) @@ ("CM" :> cm) @@ ("MM" :> mm) @@ ("FT" :> ft)
        @@ ("'" :> ft) @@ ("IN" :> inch) @@ ("\"" :> inch)

\* the conversion table, each factor in units of 10^-9
schema ==
    ("M" :> LengthRow(Nano(1, 0, 0, 0), Nano(1, 0, 0, 0), Nano(0, 10, 0, 0),
                      Nano(0, 1, 0, 0), Nano(0, 304, 800, 0), Nano(0, 25, 400, 0)))
    @@ ("CM" :> LengthRow(Nano(1, 0, 0, 0), Nano(100, 0, 0, 0), Nano(1, 0, 0, 0),
                          Nano(0, 100, 0, 0), Nano(30, 480, 0, 0), Nano(2, 540, 0, 0)))
    @@ ("MM" :> LengthRow(Nano(1, 0, 0, 0), Nano(1000, 0, 0, 0), Nano(10, 0, 0, 0),
                          Nano(1, 0, 0, 0), Nano(304, 800, 0, 0), Nano(25, 400, 0, 0)))
    @@ ("W/M2K" :> (("SI" :> Nano(1, 0, 0, 0)) @@ ("IP" :> Nano(5, 678, 264, 134))))
    @@ ("W/MK" :> (("SI" :> Nano(1, 0, 0, 0)) @@ ("IP" :> Nano(1, 730, 734, 908))))
    @@ ("M3" :> (("SI" :> Nano(1, 0, 0, 0)) @@ ("FT3" :> Nano(0, 28, 316, 847))))

\* the characters of each key of the table, as the user writes it
UnitText ==
    ("SI" :> <<"S", "I">>) @@ ("M" :> <<"M">>) @@ ("CM" :> <<"C", "M">>)
    @@ ("MM" :> <<"M", "M">>) @@ ("FT" :> <<"F", "T">>) @@ ("'" :> <<"'">>)
    @@ ("IN" :> <<"I", "N">>) @@ ("\"" :> <<"\"">>) @@ ("IP" :> <<"I", "P">>)
    @@ ("FT3" :> <<"F", "T", "3">>)

\* schema.get(_outputUnit, {}).get(inputUnit, 1)
conversionFactor(outputUnit, inputUnit) ==
    IF outputUnit \in DOMAIN schema /\ inputUnit \in DOMAIN schema[outputUnit]
    THEN schema[outputUnit][inputUnit]
    ELSE Nano(1, 0, 0, 0)

IsNumberChar(c) == IsDigit(c) \/ c = "."

\* the first non-empty piece of re.split(r'[^\d\.]', chars), <<>> when none
FirstNumber(chars) ==
    LET starts == {i \in 1..Len(chars) : IsNumberChar(chars[i])}
    IN  IF starts = {} THEN <<>>
        ELSE LET first == CHOOSE i \in starts : \A j \in starts : i <= j
                 ends  == {j \in first..Len(chars) :
                              /\ \A m \in first..j : IsNumberChar(chars[m])
                              /\ (j = Len(chars) \/ ~IsNumberChar(chars[j + 1]))}
                 last  == CHOOSE j \in ends : TRUE
             IN  SubSeq(chars, first, last)

convert_value_to_metric(inputString, outputUnit) ==
    IF inputString.t = "None" THEN PyNone
    ELSE IF Float(inputString).ok THEN PyNum(Float(inputString).v)
    ELSE IF inputString.t # "str" THEN inputString      \* re.split raises: inner except
    ELSE LET each       == FirstNumber(inputString.s)
             inputValue == IF each # <<>> THEN each ELSE inputString.s
             inputUnit  == find_input_string(inputString.s)
             number     == ParseFloat(inputValue)
         IN  IF number.ok
             THEN PyNum(Times(number.milli, conversionFactor(outputUnit, inputUnit)))
             ELSE PyStr(inputValue)

----------------------------------------------------------------------------
(* SpecConvert: one call of convert_value_to_metric *)

Numerals == {<<"5">>, <<"1", "2">>, <<"1", ".", "5">>, <<"0">>}

\* the unit as the user may write it: every key of the table, some in lower
\* case, one the table does not hold, and none
UnitWritings ==
    {UnitText[T] : T \in DOMAIN UnitText}
        \cup {<<"f", "t">>, <<"f", "t", "3">>, <<"i", "n">>, <<"m", "m">>, <<"K", "G">>, <<>>}

ConvertInputs ==
    {PyStr(n \o sep \o u) : n \in Numerals, sep \in {<<" ">>, <<>>}, u \in UnitWritings}
        \cup {PyNone, PyNum(NumOfMilli(2500)), PyObj("curve"),
              PyStr(<<"a", "b", "c">>), PyStr(<<"1", ".", "2", ".", "3", " ", "M">>)}

OutputUnits == DOMAIN schema \cup {"KG"}

InitConvert ==
    /\ _inputString \in ConvertInputs
    /\ _outputUnit \in OutputUnits
    /\ converted = Idle
    /\ ModelIdle /\ ShadingIdle /\ DHWIdle /\ RevealsIdle

Convert ==
    /\ _inputString # Idle
    /\ converted = Idle
    /\ converted' = convert_value_to_metric(_inputString, _outputUnit)
    /\ UNCHANGED <<_inputString, _outputUnit, varsModel, varsShading, varsDHW, varsReveals>>

NextConvert == Convert

SpecConvert == InitConvert /\ [][NextConvert]_vars

\* C4: for every output unit U of the table and every input unit T listed
\* for U, the result for '<n> <T>' is n multiplied by the table's factor for
\* (U, T).
C4_TableFactorApplied ==
    \A n \in Numerals : \A U \in DOMAIN schema : \A T \in DOMAIN schema[U] :
        (/\ converted # Idle
         /\ _outputUnit = U
         /\ _inputString = PyStr(n \o <<" ">> \o UnitText[T]))
            => converted = PyNum(Times(ParseFloat(n).milli, schema[U][T]))

\* the same, leaving out the one pair (M3, FT3)
C4_ExceptFT3 ==
    \A n \in Numerals : \A U \in DOMAIN schema : \A T \in DOMAIN schema[U] \ {"FT3"} :
        (/\ converted # Idle
         /\ _outputUnit = U
         /\ _inputString = PyStr(n \o <<" ">> \o UnitText[T]))
            => converted = PyNum(Times(ParseFloat(n).milli, schema[U][T]))

----------------------------------------------------------------------------
(* helpers.py: add_to_HB_model.  A dict is a function from its keys. *)

EmptyDict == <<>>

\* d[k] = v, adding the key when d does not hold it
DictSet(d, k, v) == (k :> v) @@ d

\* d.update(e)
DictUpdate(d, e) == e @@ d

\* "not user_data": None and the empty dict are falsy
Falsy(user_data) == user_data = PyNone \/ user_data = EmptyDict

\* the except KeyError handler, lines 26-35
add_to_HB_model_KeyError(user_data, _key, _dict) ==
    IF "phpp" \in DOMAIN user_data
    THEN DictSet(user_data, "phpp", DictUpdate(user_data["phpp"], _key :> _dict))
    ELSE "phpp" :> (_key :> _dict)

\* the user_data the model holds when add_to_HB_model returns
add_to_HB_model(user_data, _key, _dict, _write) ==
    IF Falsy(user_data) THEN "phpp" :> (_key :> _dict)
    ELSE CASE _write = "update" ->
                IF "phpp" \in DOMAIN user_data /\ _key \in DOMAIN user_data["phpp"]
                THEN DictSet(user_data, "phpp",
                             DictSet(user_data["phpp"], _key,
                                     DictUpdate(user_data["phpp"][_key], _dict)))
                ELSE add_to_HB_model_KeyError(user_data, _key, _dict)
           [] _write = "overwrite" ->
                IF "phpp" \in DOMAIN user_data
                THEN DictSet(user_data, "phpp", DictSet(user_data["phpp"], _key, _dict))
                ELSE add_to_HB_model_KeyError(user_data, _key, _dict)
           [] OTHER -> user_data

----------------------------------------------------------------------------
(* SpecModel: calls of add_to_HB_model on one model *)

MaxCalls == 2

ModelKeys == {"climate", "settings"}

ModelDicts == {"a" :> 1, "a" :> 2, ("a" :> 2) @@ ("b" :> 3)}

WriteModes == {"update", "overwrite"}

\* the user_data a model may hold before the first call
PriorUserData ==
    {PyNone, EmptyDict}
        \cup {"phpp" :> p : p \in {EmptyDict, "climate" :> ("a" :> 1),
                                   ("climate" :> ("a" :> 1)) @@ ("settings" :> ("b" :> 1))}}
        \cup {"energy" :> ("hvac" :> 1),
              ("energy" :> ("hvac" :> 1)) @@ ("phpp" :> ("settings" :> ("a" :> 1)))}

InitModel ==
    /\ hb_model_user_data \in PriorUserData
    /\ last_call = Idle
    /\ calls = 0
    /\ ConvertIdle /\ ShadingIdle /\ DHWIdle /\ RevealsIdle

AddToModel ==
    /\ hb_model_user_data # Idle
    /\ calls < MaxCalls
    /\ \E _key \in ModelKeys, _dict \in ModelDicts, _write \in WriteModes :
          /\ hb_model_user_data' = add_to_HB_model(hb_model_user_data, _key, _dict, _write)
          /\ last_call' = [key |-> _key, dict |-> _dict, write |-> _write]
    /\ calls' = calls + 1
    /\ UNCHANGED <<varsConvert, varsShading, varsDHW, varsReveals>>

NextModel == AddToModel

SpecModel == InitModel /\ [][NextModel]_vars

\* the keys of a user_data, none when it is None
KeysOf(user_data) == IF user_data = PyNone THEN {} ELSE DOMAIN user_data

PhppOf(user_data) ==
    IF "phpp" \in KeysOf(user_data) THEN user_data["phpp"] ELSE EmptyDict

\* C9: add_to_HB_model changes only user_data['phpp'][_key]: every other key
\* under 'phpp' and every other top-level key of user_data has the same value
\* after the call as before, for every prior user_data and both _write modes.
C9_OnlyKeyEntryChanges ==
    [][calls' = calls + 1 =>
         /\ \A k \in KeysOf(hb_model_user_data) \ {"phpp"} :
               /\ k \in KeysOf(hb_model_user_data')
               /\ hb_model_user_data'[k] = hb_model_user_data[k]
         /\ \A k \in DOMAIN PhppOf(hb_model_user_data) \ {last_call'.key} :
               /\ k \in DOMAIN PhppOf(hb_model_user_data')
               /\ PhppOf(hb_model_user_data')[k] = PhppOf(hb_model_user_data)[k]]_vars

\* the same for a prior user_data that is empty or holds 'phpp'
C9_WhenPhppPresent ==
    [][(calls' = calls + 1
            /\ (Falsy(hb_model_user_data) \/ "phpp" \in KeysOf(hb_model_user_data))) =>
         /\ \A k \in KeysOf(hb_model_user_data) \ {"phpp"} :
               /\ k \in KeysOf(hb_model_user_data')
               /\ hb_model_user_data'[k] = hb_model_user_data[k]
         /\ \A k \in DOMAIN PhppOf(hb_model_user_data) \ {last_call'.key} :
               /\ k \in DOMAIN PhppOf(hb_model_user_data')
               /\ PhppOf(hb_model_user_data')[k] = PhppOf(hb_model_user_data)[k]]_vars

----------------------------------------------------------------------------
(* LBT2PH_ApplyWindowShadingFactors.py *)

\* the Honeybee objects: h.rooms, h.apertures and h.dicts are lists, and an
\* object's identity is its index.  A room is [name, faces], its faces a
\* list of lists of apertures; an aperture is [display_name, user_data], its
\* user_data a dict's index or 0 for None; the value a user_data holds under
\* 'phpp' is [ref |-> the index of the nested dict].
Heap(rooms, apertures, dicts) == [rooms |-> rooms, apertures |-> apertures, dicts |-> dicts]

RECURSIVE Flatten(_)
Flatten(lists) == IF lists = <<>> THEN <<>> ELSE Head(lists) \o Flatten(Tail(lists))

DefaultFactor == NumOfMilli(750)

Params(winter, summer) == [winter |-> winter, summer |-> summer]

\* (mutant) a missing entry taken to be 1.0, an unshaded window
shading_factor_unshaded(factors, i) ==
    IF i <= Len(factors) THEN Float(factors[i]).v ELSE NumOfMilli(1000)

\* try: float(factors[i]) except IndexError: 0.75 (i counted from 1 here)
shading_factor(factors, i) ==
    IF i <= Len(factors) THEN Float(factors[i]).v ELSE DefaultFactor

RECURSIVE build_param_dict_keep_first(_, _, _, _, _)
\* (mutant) a name that is already recorded keeps its first factors
build_param_dict_keep_first(names, winter, summer, i, d) ==
    IF i > Len(names) THEN d
    ELSE build_param_dict_keep_first(names, winter, summer, i + 1,
             IF names[i] \in DOMAIN d THEN d
             ELSE DictSet(d, names[i],
                          Params(shading_factor(winter, i), shading_factor(summer, i))))

RECURSIVE build_param_dict(_, _, _, _, _)
\* the loop of lines 61-77 from index i on, d being param_dict so far
build_param_dict(names, winter, summer, i, d) ==
    IF i > Len(names) THEN d
    ELSE build_param_dict(names, winter, summer, i + 1,
             DictSet(d, names[i],
                     Params(shading_factor(winter, i), shading_factor(summer, i))))

\* PHPP_Window.from_dict and to_dict (LBT2PH/windows.py): the window record
\* is a flat attribute bag, read from and written to a dict of its own
PHPP_Window_from_dict(d) == d

PHPP_Window_to_dict(phpp_window) == phpp_window

\* room.duplicate() (Honeybee): a new room with new faces and new apertures,
\* each aperture with a copy of its user_data dict (user_data.copy(): the
\* values, so the dict under 'phpp', are shared with the original)
duplicate(h, room) ==
    LET old     == Flatten(room.faces)
        has(j)  == h.apertures[old[j]].user_data # 0
        rank(j) == Cardinality({i \in 1..j : has(i)})
        copies  == [r \in 1..rank(Len(old)) |->
                       h.dicts[h.apertures[old[CHOOSE j \in 1..Len(old) :
                                                   has(j) /\ rank(j) = r]].user_data]]
        new_aps == [j \in 1..Len(old) |->
                       [display_name |-> h.apertures[old[j]].display_name,
                        user_data    |-> IF has(j) THEN Len(h.dicts) + rank(j) ELSE 0]]
        before(f) == Len(Flatten(SubSeq(room.faces, 1, f - 1)))
        new_room == [name  |-> room.name,
                     faces |-> [f \in 1..Len(room.faces) |->
                                   [j \in 1..Len(room.faces[f]) |->
                                       Len(h.apertures) + before(f) + j]]]
    IN  Heap(Append(h.rooms, new_room), h.apertures \o new_aps, h.dicts \o copies)

\* lines 90 and 106-108: the window rebuilt from the aperture's 'phpp' dict,
\* with the factors set and the shading dimensions dropped
shaded_window(h, a, window_factors) ==
    LET phpp_window ==
            PHPP_Window_from_dict(h.dicts[h.dicts[h.apertures[a].user_data]["phpp"].ref])
    IN  DictSet(DictSet(DictSet(phpp_window,
            "shading_factor_winter", PyNum(window_factors.winter)),
            "shading_factor_summer", PyNum(window_factors.summer)),
            "shading_dimensions", PyNone)

\* (mutant) the factors written into the dict the aperture already holds
\* under 'phpp'
set_shading_factors_in_place(h, a, window_factors) ==
    Heap(h.rooms, h.apertures,
         [h.dicts EXCEPT ![h.dicts[h.apertures[a].user_data]["phpp"].ref] =
             PHPP_Window_to_dict(shaded_window(h, a, window_factors))])

\* lines 106-114: the window is packed into a new user_data dict, which
\* replaces the aperture's
set_shading_factors(h, a, window_factors) ==
    LET phpp_id   == Len(h.dicts) + 1
        user_data == "phpp" :> [ref |-> phpp_id]
    IN  Heap(h.rooms,
             [h.apertures EXCEPT ![a].user_data = phpp_id + 1],
             h.dicts \o <<PHPP_Window_to_dict(shaded_window(h, a, window_factors)),
                          user_data>>)

\* lines 88-114 for one aperture of the new room
update_aperture(h, a, params) ==
    LET ap == h.apertures[a]
    IN  IF ap.user_data = 0 THEN h                                  \* TypeError
        ELSE IF "phpp" \notin DOMAIN h.dicts[ap.user_data] THEN h   \* KeyError
        ELSE IF ap.display_name \notin DOMAIN params THEN h         \* no window_factors
        ELSE set_shading_factors(h, a, params[ap.display_name])

RECURSIVE update_apertures(_, _, _)
\* the loops of lines 84-85 over the apertures left
update_apertures(h, apertures, params) ==
    IF apertures = <<>> THEN h
    ELSE update_apertures(update_aperture(h, Head(apertures), params),
                          Tail(apertures), params)

\* "0 in v" for a Params tuple
HasZero(v) == v.winter = NumOfMilli(0) \/ v.summer = NumOfMilli(0)

LengthWarning == [level |-> "Warning", about |-> "length", window |-> ""]
ZeroWarning(k) == [level |-> "Warning", about |-> "zero", window |-> k]

----------------------------------------------------------------------------
(* SpecShading: one run of LBT2PH_ApplyWindowShadingFactors *)

MaxNames == 2
MaxFactors == 2
MaxRooms == 2

SeqsUpTo(S, n) == UNION {[1..k -> S] : k \in 0..n}

WindowNames == {"W1", "W2"}

\* float() takes the factors as numbers or as text
WinterChoices == {PyNum(NumOfMilli(0)), PyStr(<<"0", ".", "5">>)}
SummerChoices == {PyNum(NumOfMilli(1000)), PyStr(<<"0">>)}

\* the 'phpp' dict of a window before the script runs
WindowDict(name) ==
    ("name" :> PyStr(<<name>>))
    @@ ("glazing" :> PyStr(<<"g", "1">>))
    @@ ("shading_factor_winter" :> PyNum(NumOfMilli(1000)))
    @@ ("shading_factor_summer" :> PyNum(NumOfMilli(1000)))
    @@ ("shading_dimensions" :> PyStr(<<"d", "i", "m", "s">>))

\* an aperture of the input: its user_data is None, a dict without 'phpp',
\* a dict with 'phpp' alone, or a dict with 'phpp' and another key
ApertureDesc(name, data) == [display_name |-> name, data |-> data]

add_aperture(h, desc) ==
    LET n == Len(h.dicts)
        other == "energy" :> PyStr(<<"e">>)
    IN  CASE desc.data = "None" ->
               Heap(h.rooms, Append(h.apertures,
                        [display_name |-> desc.display_name, user_data |-> 0]), h.dicts)
          [] desc.data = "no_phpp" ->
               Heap(h.rooms, Append(h.apertures,
                        [display_name |-> desc.display_name, user_data |-> n + 1]),
                    Append(h.dicts, other))
          [] desc.data = "phpp" ->
               Heap(h.rooms, Append(h.apertures,
                        [display_name |-> desc.display_name, user_data |-> n + 2]),
                    h.dicts \o <<WindowDict(desc.display_name), "phpp" :> [ref |-> n + 1]>>)
          [] OTHER ->
               Heap(h.rooms, Append(h.apertures,
                        [display_name |-> desc.display_name, user_data |-> n + 2]),
                    h.dicts \o <<WindowDict(desc.display_name),
                                 ("phpp" :> [ref |-> n + 1]) @@ other>>)

RECURSIVE add_apertures(_, _)
add_apertures(h, descs) ==
    IF descs = <<>> THEN h ELSE add_apertures(add_aperture(h, Head(descs)), Tail(descs))

add_room(h, desc) ==
    LET h2 == add_apertures(h, Flatten(desc.faces))
        before(f) == Len(Flatten(SubSeq(desc.faces, 1, f - 1)))
        room == [name  |-> desc.name,
                 faces |-> [f \in 1..Len(desc.faces) |->
                               [j \in 1..Len(desc.faces[f]) |->
                                   Len(h.apertures) + before(f) + j]]]
    IN  Heap(Append(h2.rooms, room), h2.apertures, h2.dicts)

RECURSIVE add_rooms(_, _)
add_rooms(h, descs) ==
    IF descs = <<>> THEN h ELSE add_rooms(add_room(h, Head(descs)), Tail(descs))

\* the rooms a model is made of: faces with and without apertures
RoomChoices ==
    {[name |-> "A", faces |-> << <<ApertureDesc("W1", "phpp_other"),
                                   ApertureDesc("W2", "None")>>, <<>> >>],
     [name |-> "B", faces |-> << <<>>, <<ApertureDesc("W1", "no_phpp"),
                                         ApertureDesc("W2", "phpp")>> >>]}

InitShading ==
    /\ \E scene \in SeqsUpTo(RoomChoices, MaxRooms) :
          LET h == add_rooms(Heap(<<>>, <<>>, <<>>), scene)
          IN  /\ hb_rooms = h.rooms
              /\ hb_apertures = h.apertures
              /\ py_dicts = h.dicts
              /\ _HB_rooms = [k \in 1..Len(scene) |-> k]
    /\ _window_names \in SeqsUpTo(WindowNames, MaxNames)
    /\ _winter_shading_factors \in SeqsUpTo(WinterChoices, MaxFactors)
    /\ _summer_shading_factors \in SeqsUpTo(SummerChoices, MaxFactors)
    /\ param_dict = EmptyDict
    /\ HB_rooms_ = <<>>
    /\ shading_messages = {}
    /\ shading_pc = "check"
    /\ ConvertIdle /\ ModelIdle /\ DHWIdle /\ RevealsIdle

\* lines 52-55
CheckLengths ==
    /\ shading_pc = "check"
    /\ shading_messages' =
          IF \/ Len(_window_names) # Len(_winter_shading_factors)
             \/ Len(_window_names) # Len(_summer_shading_factors)
          THEN shading_messages \cup {LengthWarning}
          ELSE shading_messages
    /\ shading_pc' = "params"
    /\ UNCHANGED <<varsShadingInputs, varsShadingHeap, param_dict, HB_rooms_>>
    /\ UNCHANGED <<varsConvert, varsModel, varsDHW, varsReveals>>

\* lines 59-77
BuildParamDict ==
    /\ shading_pc = "params"
    /\ param_dict' = build_param_dict(_window_names, _winter_shading_factors,
                                      _summer_shading_factors, 1, EmptyDict)
    /\ shading_pc' = "rooms"
    /\ UNCHANGED <<varsShadingInputs, varsShadingHeap, HB_rooms_, shading_messages>>
    /\ UNCHANGED <<varsConvert, varsModel, varsDHW, varsReveals>>

\* lines 82-116, one room
UpdateRoom ==
    /\ shading_pc = "rooms"
    /\ Len(HB_rooms_) < Len(_HB_rooms)
    /\ LET room     == hb_rooms[_HB_rooms[Len(HB_rooms_) + 1]]
           copied   == duplicate(Heap(hb_rooms, hb_apertures, py_dicts), room)
           new_room == Len(copied.rooms)
           h        == update_apertures(copied, Flatten(copied.rooms[new_room].faces),
                                        param_dict)
       IN  /\ hb_rooms' = h.rooms
           /\ hb_apertures' = h.apertures
           /\ py_dicts' = h.dicts
           /\ HB_rooms_' = Append(HB_rooms_, new_room)
    /\ UNCHANGED <<varsShadingInputs, param_dict, shading_messages, shading_pc>>
    /\ UNCHANGED <<varsConvert, varsModel, varsDHW, varsReveals>>

\* lines 120-125
ZeroWarnings ==
    /\ shading_pc = "rooms"
    /\ Len(HB_rooms_) = Len(_HB_rooms)
    /\ shading_messages' =
          shading_messages \cup {ZeroWarning(k) : k \in {n \in DOMAIN param_dict :
                                                           HasZero(param_dict[n])}}
    /\ shading_pc' = "done"
    /\ UNCHANGED <<varsShadingInputs, varsShadingHeap, param_dict, HB_rooms_>>
    /\ UNCHANGED <<varsConvert, varsModel, varsDHW, varsReveals>>

NextShading == CheckLengths \/ BuildParamDict \/ UpdateRoom \/ ZeroWarnings

SpecShading == InitShading /\ [][NextShading]_vars

----------------------------------------------------------------------------
(* ApplyWindowShadingFactors: what the claims speak of *)

LengthsDiffer ==
    \/ Len(_window_names) # Len(_winter_shading_factors)
    \/ Len(_window_names) # Len(_summer_shading_factors)

\* the factor the lists give for index i: the entry as a float, 0.75 when
\* the list has no entry at i
FactorAt(factors, i) ==
    IF i \in 1..Len(factors) THEN Float(factors[i]).v ELSE NumOfMilli(750)

\* the last index at which a name occurs in _window_names
LastIndexOf(name) ==
    CHOOSE i \in 1..Len(_window_names) :
        /\ _window_names[i] = name
        /\ \A j \in (i + 1)..Len(_window_names) : _window_names[j] # name

\* the places <<k, f, j>> of the apertures of the output rooms: room k of
\* HB_rooms_, face f, aperture j
OutputPlaces ==
    UNION {UNION {{<<k, f, j>> : j \in 1..Len(hb_rooms[HB_rooms_[k]].faces[f])} :
                     f \in 1..Len(hb_rooms[HB_rooms_[k]].faces)} :
              k \in 1..Len(HB_rooms_)}

OutputAperture(p) == hb_apertures[hb_rooms[HB_rooms_[p[1]]].faces[p[2]][p[3]]]
InputAperture(p) == hb_apertures[hb_rooms[_HB_rooms[p[1]]].faces[p[2]][p[3]]]

HasPhpp(aperture) ==
    aperture.user_data # 0 /\ "phpp" \in DOMAIN py_dicts[aperture.user_data]

PhppOfAperture(aperture) == py_dicts[py_dicts[aperture.user_data]["phpp"].ref]

\* an aperture's user_data by value: None, or the dict with the dict under
\* 'phpp' in the place of its reference
UserDataOf(aperture) ==
    IF aperture.user_data = 0 THEN PyNone
    ELSE [k \in DOMAIN py_dicts[aperture.user_data] |->
             IF k = "phpp" THEN PhppOfAperture(aperture)
             ELSE py_dicts[aperture.user_data][k]]

ShadingFields == {"shading_factor_winter", "shading_factor_summer", "shading_dimensions"}

\* C1 as stated: for every index i of _window_names the factors recorded
\* for the name at i are those of index i (0.75 where a list has no entry at
\* i); a Warning is added exactly when the lengths differ; the output rooms
\* are still produced.
C1_FactorPerIndex ==
    /\ shading_pc \in {"rooms", "done"} =>
          \A i \in 1..Len(_window_names) :
              /\ _window_names[i] \in DOMAIN param_dict
              /\ param_dict[_window_names[i]].winter = FactorAt(_winter_shading_factors, i)
              /\ param_dict[_window_names[i]].summer = FactorAt(_summer_shading_factors, i)
    /\ shading_pc = "done" =>
          /\ (shading_messages # {}) <=> LengthsDiffer
          /\ Len(HB_rooms_) = Len(_HB_rooms)

\* C1 as amended: the factors recorded for a name are those of the last
\* index at which the name occurs (0.75 where a list has no entry there);
\* the length Warning is added exactly when the lengths differ, and the only
\* other messages are the Warnings of lines 120-125, one for each recorded
\* name with a factor of 0; the output rooms are still produced.
C1_FactorOfLastIndex ==
    /\ shading_pc \in {"rooms", "done"} =>
          /\ DOMAIN param_dict = {_window_names[i] : i \in 1..Len(_window_names)}
          /\ \A n \in DOMAIN param_dict :
                /\ param_dict[n].winter = FactorAt(_winter_shading_factors, LastIndexOf(n))
                /\ param_dict[n].summer = FactorAt(_summer_shading_factors, LastIndexOf(n))
    /\ shading_pc = "done" =>
          /\ (LengthWarning \in shading_messages) <=> LengthsDiffer
          /\ shading_messages \ {LengthWarning} =
                {ZeroWarning(n) : n \in {m \in DOMAIN param_dict :
                     \/ FactorAt(_winter_shading_factors, LastIndexOf(m)) = NumOfMilli(0)
                     \/ FactorAt(_summer_shading_factors, LastIndexOf(m)) = NumOfMilli(0)}}
          /\ Len(HB_rooms_) = Len(_HB_rooms)

\* a run with a missing winter entry, a name given twice and a 0 factor
C1_Witness ==
    /\ shading_pc = "done"
    /\ Len(_window_names) = 2 /\ _window_names[1] = _window_names[2]
    /\ Len(_winter_shading_factors) = 1
    /\ Len(_summer_shading_factors) = 2
    /\ Float(_summer_shading_factors[2]).v = NumOfMilli(0)
    /\ Len(HB_rooms_) = 2

\* C2 as stated: every output aperture that carries 'phpp' data and whose
\* display_name is _window_names[i] ends with the factors of index i, and
\* with shading_dimensions None, for every index i.
C2_MatchedByPosition ==
    shading_pc = "done" =>
        \A i \in 1..Len(_window_names) : \A p \in OutputPlaces :
            (HasPhpp(OutputAperture(p)) /\ OutputAperture(p).display_name = _window_names[i])
            => LET phpp == PhppOfAperture(OutputAperture(p))
               IN  /\ phpp["shading_factor_winter"]
                         = PyNum(FactorAt(_winter_shading_factors, i))
                   /\ phpp["shading_factor_summer"]
                         = PyNum(FactorAt(_summer_shading_factors, i))
                   /\ phpp["shading_dimensions"] = PyNone

\* C2 as amended: such an aperture ends with the factors of the last index
\* at which its display_name occurs in _window_names.
C2_MatchedByLastPosition ==
    shading_pc = "done" =>
        \A i \in 1..Len(_window_names) : \A p \in OutputPlaces :
            (/\ HasPhpp(OutputAperture(p))
             /\ OutputAperture(p).display_name = _window_names[i]
             /\ i = LastIndexOf(_window_names[i]))
            => LET phpp == PhppOfAperture(OutputAperture(p))
               IN  /\ phpp["shading_factor_winter"]
                         = PyNum(FactorAt(_winter_shading_factors, i))
                   /\ phpp["shading_factor_summer"]
                         = PyNum(FactorAt(_summer_shading_factors, i))
                   /\ phpp["shading_dimensions"] = PyNone

\* a name given twice with two winter factors, one of them 0, and an output
\* aperture of that name that carried 'phpp' data
C2_Witness ==
    /\ shading_pc = "done"
    /\ Len(_window_names) = 2 /\ _window_names[1] = _window_names[2]
    /\ Len(_winter_shading_factors) = 2
    /\ Float(_winter_shading_factors[1]).v # Float(_winter_shading_factors[2]).v
    /\ Float(_winter_shading_factors[2]).v = NumOfMilli(0)
    /\ \E p \in OutputPlaces :
          /\ HasPhpp(OutputAperture(p))
          /\ OutputAperture(p).display_name = _window_names[1]
          /\ PhppOfAperture(OutputAperture(p))["shading_dimensions"] = PyNone

\* no object that exists is changed by a step: the rooms, apertures and
\* dicts of the input exist from the start
ExistingObjectsKept ==
    /\ \A r \in 1..Len(hb_rooms) : hb_rooms'[r] = hb_rooms[r]
    /\ \A a \in 1..Len(hb_apertures) : hb_apertures'[a] = hb_apertures[a]
    /\ \A d \in 1..Len(py_dicts) : py_dicts'[d] = py_dicts[d]
    /\ _HB_rooms' = _HB_rooms

\* HB_rooms_ holds one new room per input room, in the input order, with new
\* apertures of the same names in the same places
OneDuplicatePerRoom ==
    shading_pc = "done" =>
        /\ Len(HB_rooms_) = Len(_HB_rooms)
        /\ \A k \in 1..Len(HB_rooms_) :
              LET out == hb_rooms[HB_rooms_[k]]
                  in  == hb_rooms[_HB_rooms[k]]
              IN  /\ \A m \in 1..Len(_HB_rooms) : HB_rooms_[k] # _HB_rooms[m]
                  /\ \A m \in 1..Len(HB_rooms_) : m # k => HB_rooms_[m] # HB_rooms_[k]
                  /\ out.name = in.name
                  /\ Len(out.faces) = Len(in.faces)
                  /\ \A f \in 1..Len(in.faces) : Len(out.faces[f]) = Len(in.faces[f])
        /\ \A p \in OutputPlaces :
              /\ OutputAperture(p).display_name = InputAperture(p).display_name
              /\ \A q \in OutputPlaces :
                    hb_rooms[HB_rooms_[p[1]]].faces[p[2]][p[3]]
                        # hb_rooms[_HB_rooms[q[1]]].faces[q[2]][q[3]]

\* C3: the script never modifies the rooms passed in _HB_rooms nor their
\* faces, apertures or aperture user_data; HB_rooms_ holds exactly one
\* duplicate per input room, in the input order.
C3_InputRoomsUntouched == [][ExistingObjectsKept]_vars /\ []OneDuplicatePerRoom

\* two rooms were duplicated and an aperture of the second was given new
\* shading factors
C3_Witness ==
    /\ shading_pc = "done"
    /\ Len(HB_rooms_) = 2
    /\ \E p \in OutputPlaces :
          /\ p[1] = 2
          /\ HasPhpp(OutputAperture(p))
          /\ PhppOfAperture(OutputAperture(p))["shading_dimensions"] = PyNone
          /\ PhppOfAperture(InputAperture(p))["shading_dimensions"] # PyNone

\* C10: on an output aperture only the three shading values under 'phpp'
\* change: every other entry of its user_data is kept, and an aperture with
\* no 'phpp' data or with a display_name that is not in _window_names has
\* the user_data of the input.
C10_OnlyShadingFieldsChange ==
    shading_pc = "done" =>
        \A p \in OutputPlaces :
            LET in  == UserDataOf(InputAperture(p))
                out == UserDataOf(OutputAperture(p))
            IN  IF \/ ~HasPhpp(InputAperture(p))
                   \/ \A i \in 1..Len(_window_names) :
                         _window_names[i] # InputAperture(p).display_name
                THEN out = in
                ELSE /\ DOMAIN out = DOMAIN in
                     /\ \A k \in DOMAIN in \ {"phpp"} : out[k] = in[k]
                     /\ DOMAIN out["phpp"] = DOMAIN in["phpp"]
                     /\ \A k \in DOMAIN in["phpp"] \ ShadingFields :
                           out["phpp"][k] = in["phpp"][k]

\* the same of an aperture whose user_data holds 'phpp' alone
C10_WhenPhppAlone ==
    shading_pc = "done" =>
        \A p \in OutputPlaces :
            LET in  == UserDataOf(InputAperture(p))
                out == UserDataOf(OutputAperture(p))
            IN  IF \/ ~HasPhpp(InputAperture(p))
                   \/ \A i \in 1..Len(_window_names) :
                         _window_names[i] # InputAperture(p).display_name
                THEN out = in
                ELSE DOMAIN in = {"phpp"} =>
                     /\ DOMAIN out = DOMAIN in
                     /\ DOMAIN out["phpp"] = DOMAIN in["phpp"]
                     /\ \A k \in DOMAIN in["phpp"] \ ShadingFields :
                           out["phpp"][k] = in["phpp"][k]
----------------------------------------------------------------------------
(* LBT2PH_DHW_Piping_Recirc.py *)

\* the index of the first " (" in chars, 0 when there is none
FindParen(chars) ==
    LET at == {i \in 1..(Len(chars) - 1) : chars[i] = " " /\ chars[i + 1] = "("}
    IN  IF at = {} THEN 0 ELSE CHOOSE i \in at : \A j \in at : i <= j

\* cleanPipeDimInputs for one of its two values, a text or None:
\* float(value.split(" (")[0]) when " (" is in it.  ok = FALSE is the
\* ValueError of float
clean_pipe_dim(value) ==
    IF value = PyNone \/ FindParen(value.s) = 0 THEN [ok |-> TRUE, v |-> value]
    ELSE LET number == Float(PyStr(SubSeq(value.s, 1, FindParen(value.s) - 1)))
         IN  IF number.ok THEN [ok |-> TRUE, v |-> PyNum(number.v)] ELSE number

Output(lengths, diams, insul_thks, insul_lambdas, refectives) ==
    [lengths |-> lengths, diams |-> diams, insul_thicknesses |-> insul_thks,
     insul_conductivities |-> insul_lambdas, insul_reflectives |-> refectives]

PipeWarning(i) == [level |-> "Warning", input |-> i]

\* lines 88-109 for element i, a host object: the Rhino object it refers to
\* is found and is a curve, or the lookup raises; the five values are
\* appended after all of them were read.  The result is the lists and
\* whether the except branch of line 105 was taken
values_from_rhino_object(out, rh_obj) ==
    IF rh_obj.kind # "curve" THEN [out |-> out, warned |-> TRUE]
    ELSE LET d == clean_pipe_dim(rh_obj.pipe_diameter)
             t == clean_pipe_dim(rh_obj.insulation_thickness)
         IN  IF ~d.ok \/ ~t.ok THEN [out |-> out, warned |-> TRUE]
             ELSE [out |-> Output(Append(out.lengths, PyNum(NumOfMilli(rh_obj.length))),
                                  Append(out.diams, d.v),
                                  Append(out.insul_thicknesses, t.v),
                                  Append(out.insul_conductivities,
                                         rh_obj.insulation_conductivity),
                                  Append(out.insul_reflectives,
                                         rh_obj.insulation_reflective)),
                   warned |-> FALSE]

\* lines 85-109 for one element: the lists, whether a Warning was added,
\* and the exception that leaves the function ("" when none does)
get_value_from_Rhino(out, input) ==
    LET length == Float(convert_value_to_metric(input, "M"))
    IN  IF length.ok
        THEN [out |-> [out EXCEPT !.lengths = Append(@, PyNum(length.v))],
              warned |-> FALSE, raised |-> ""]
        ELSE IF length.exc = "AttributeError"
        THEN values_from_rhino_object(out, input.o) @@ [raised |-> ""]
        ELSE [out |-> out, warned |-> FALSE, raised |-> length.exc]

clean_input(_input, _unit) ==
    [i \in 1..Len(_input) |-> convert_value_to_metric(_input[i], _unit)]

\* PHPP_DHW_RecircPipe() (LBT2PH/dhw.py): the pipe object with its defaults,
\* a flat attribute bag
PHPP_DHW_RecircPipe ==
    [lengths |-> <<>>,
     diams |-> <<PyNum(NumOfMilli(25))>>,
     insul_thicknesses |-> <<PyNum(NumOfMilli(25))>>,
     insul_conductivities |-> <<PyNum(NumOfMilli(40))>>,
     insul_reflectives |-> <<PyStr(<<"x">>)>>,
     quality |-> PyStr(<<"1">>),
     period |-> PyNum(NumOfMilli(18000))]

\* lines 127-136: each list of the Rhino scene that is not empty is set
apply_rhino_values(pipe, values) ==
    [pipe EXCEPT
        !.lengths = IF values.lengths # <<>> THEN values.lengths ELSE @,
        !.diams = IF values.diams # <<>> THEN values.diams ELSE @,
        !.insul_thicknesses =
            IF values.insul_thicknesses # <<>> THEN values.insul_thicknesses ELSE @,
        !.insul_conductivities =
            IF values.insul_conductivities # <<>> THEN values.insul_conductivities ELSE @,
        !.insul_reflectives =
            IF values.insul_reflectives # <<>> THEN values.insul_reflectives ELSE @]

\* (mutant) a component input is used only where the Rhino scene gave nothing
apply_inputs_rhino_first(pipe, diam, thickness, conductivity, reflective, quality, period) ==
    [pipe EXCEPT
        !.diams = IF diam # <<>> /\ @ = PHPP_DHW_RecircPipe.diams
                  THEN clean_input(diam, "MM") ELSE @,
        !.insul_thicknesses =
            IF thickness # <<>> /\ @ = PHPP_DHW_RecircPipe.insul_thicknesses
            THEN clean_input(thickness, "MM") ELSE @,
        !.insul_conductivities =
            IF conductivity # <<>> /\ @ = PHPP_DHW_RecircPipe.insul_conductivities
            THEN clean_input(conductivity, "W/MK") ELSE @,
        !.insul_reflectives =
            IF reflective # <<>> /\ @ = PHPP_DHW_RecircPipe.insul_reflectives
            THEN reflective ELSE @,
        !.quality = IF quality # PyNone THEN quality ELSE @,
        !.period = IF period # PyNone THEN period ELSE @]

\* lines 140-151: each component input that is not empty is set
apply_component_inputs(pipe, diam, thickness, conductivity, reflective, quality, period) ==
    [pipe EXCEPT
        !.diams = IF diam # <<>> THEN clean_input(diam, "MM") ELSE @,
        !.insul_thicknesses = IF thickness # <<>> THEN clean_input(thickness, "MM") ELSE @,
        !.insul_conductivities =
            IF conductivity # <<>> THEN clean_input(conductivity, "W/MK") ELSE @,
        !.insul_reflectives = IF reflective # <<>> THEN reflective ELSE @,
        !.quality = IF quality # PyNone THEN quality ELSE @,
        !.period = IF period # PyNone THEN period ELSE @]

----------------------------------------------------------------------------
(* SpecDHW: one run of LBT2PH_DHW_Piping_Recirc *)

MaxPipes == 2

\* a curve of the Rhino scene with its user text, and host objects that are
\* no curve of the scene
Curve(length, d, t, k, r) ==
    PyObj([kind |-> "curve", length |-> length, pipe_diameter |-> d,
           insulation_thickness |-> t, insulation_conductivity |-> k,
           insulation_reflective |-> r])

PipeChoices ==
    {PyNum(NumOfMilli(5000)),
     PyStr(<<"5", " ", "F", "T">>),
     PyStr(<<"a", "b", "c">>),
     PyNone,
     Curve(3000, PyStr(<<"2", "5", " ", "(", "1", "i", "n", ")">>), PyStr(<<"1", "0", " ", "(", "3", "/", "8", "i", "n", ")">>), PyStr(<<"0", ".", "0", "4">>), PyStr(<<"F", "a", "l", "s", "e">>)),
     Curve(4000, PyNone, PyNone, PyNone, PyNone),
     Curve(2000, PyStr(<<"x", " ", "(", "b", "a", "d", ")">>), PyNone, PyNone, PyNone),
     PyObj([kind |-> "point"])}

InitDHW ==
    /\ pipe_geom_ \in SeqsUpTo(PipeChoices, MaxPipes)
    /\ pipe_diam_ \in {<<>>, <<PyStr(<<"1", " ", "I", "N">>)>>}
    /\ insulThickness_ \in {<<>>, <<PyNum(NumOfMilli(12000))>>}
    /\ insulConductivity_ \in {<<>>, <<PyStr(<<"0", ".", "0", "2", " ", "I", "P">>)>>}
    /\ insulReflective_ \in {<<>>, <<PyBool(FALSE)>>}
    /\ insul_quality_ \in {PyNone, PyStr(<<"2", "-", "M", "o", "d", "e", "r", "a", "t", "e">>)}
    /\ daily_period_ \in {PyNone, PyNum(NumOfMilli(24000))}
    /\ rhino_values = Output(<<>>, <<>>, <<>>, <<>>, <<>>)
    /\ dhw_i = 1
    /\ circulation_piping_ = PHPP_DHW_RecircPipe
    /\ dhw_messages = {}
    /\ dhw_pc = IF pipe_geom_ # <<>> THEN "rhino" ELSE "inputs"
    /\ ConvertIdle /\ ModelIdle /\ ShadingIdle /\ RevealsIdle

\* one turn of the loop of get_values_from_Rhino, lines 84-109
GetValueFromRhino ==
    /\ dhw_pc = "rhino"
    /\ dhw_i <= Len(pipe_geom_)
    /\ LET got == get_value_from_Rhino(rhino_values, pipe_geom_[dhw_i])
       IN  /\ rhino_values' = got.out
           /\ dhw_messages' = IF got.warned THEN dhw_messages \cup {PipeWarning(dhw_i)}
                               ELSE dhw_messages
           /\ dhw_pc' = IF got.raised # "" THEN "raised" ELSE dhw_pc
           /\ dhw_i' = IF got.raised # "" THEN dhw_i ELSE dhw_i + 1
    /\ UNCHANGED <<varsDHWInputs, circulation_piping_>>
    /\ UNCHANGED <<varsConvert, varsModel, varsShading, varsReveals>>

\* lines 125-136
ApplyRhinoValues ==
    /\ dhw_pc = "rhino"
    /\ dhw_i > Len(pipe_geom_)
    /\ circulation_piping_' = apply_rhino_values(circulation_piping_, rhino_values)
    /\ dhw_pc' = "inputs"
    /\ UNCHANGED <<varsDHWInputs, rhino_values, dhw_i, dhw_messages>>
    /\ UNCHANGED <<varsConvert, varsModel, varsShading, varsReveals>>

\* lines 140-151
ApplyComponentInputs ==
    /\ dhw_pc = "inputs"
    /\ circulation_piping_' =
          apply_component_inputs(circulation_piping_, pipe_diam_, insulThickness_,
                                 insulConductivity_, insulReflective_,
                                 insul_quality_, daily_period_)
    /\ dhw_pc' = "done"
    /\ UNCHANGED <<varsDHWInputs, rhino_values, dhw_i, dhw_messages>>
    /\ UNCHANGED <<varsConvert, varsModel, varsShading, varsReveals>>

NextDHW == GetValueFromRhino \/ ApplyRhinoValues \/ ApplyComponentInputs

SpecDHW == InitDHW /\ [][NextDHW]_vars

----------------------------------------------------------------------------
(* DHW_Piping_Recirc: what the claims speak of *)

\* the component input converted to the metric unit, entry by entry
Metric(_input, unit) ==
    [i \in 1..Len(_input) |-> convert_value_to_metric(_input[i], unit)]

\* the value the claim gives an attribute: the component input when it is
\* not empty, else the list of the Rhino scene when that is not empty, else
\* the default of a new pipe
Overridden(component, rhino, default) ==
    IF component # <<>> THEN component
    ELSE IF rhino # <<>> THEN rhino
    ELSE default

\* C5: a value given on the component overrides the value read from the
\* Rhino scene: each of diams, insul_thicknesses, insul_conductivities and
\* insul_reflectives ends equal to the component input when that is not
\* empty (metric-converted for the first three), to the Rhino list when the
\* input is empty and the list is not, and to the default otherwise.
C5_ComponentOverridesRhino ==
    dhw_pc = "done" =>
        /\ circulation_piping_.diams =
              Overridden(Metric(pipe_diam_, "MM"), rhino_values.diams,
                         PHPP_DHW_RecircPipe.diams)
        /\ circulation_piping_.insul_thicknesses =
              Overridden(Metric(insulThickness_, "MM"), rhino_values.insul_thicknesses,
                         PHPP_DHW_RecircPipe.insul_thicknesses)
        /\ circulation_piping_.insul_conductivities =
              Overridden(Metric(insulConductivity_, "W/MK"),
                         rhino_values.insul_conductivities,
                         PHPP_DHW_RecircPipe.insul_conductivities)
        /\ circulation_piping_.insul_reflectives =
              Overridden(insulReflective_, rhino_values.insul_reflectives,
                         PHPP_DHW_RecircPipe.insul_reflectives)

\* the Rhino scene gave diameters and thicknesses, the component gives a
\* diameter and no thickness: the diameter is the component's (1 IN is
\* 25.4 mm), the thickness the scene's
C5_Witness ==
    /\ dhw_pc = "done"
    /\ rhino_values.diams # <<>>
    /\ pipe_diam_ # <<>>
    /\ insulThickness_ = <<>>
    /\ circulation_piping_.diams = <<PyNum(Times(1000, Nano(25, 400, 0, 0)))>>
    /\ circulation_piping_.diams # rhino_values.diams
    /\ circulation_piping_.insul_thicknesses = rhino_values.insul_thicknesses

\* an element that is a number, or a text that holds one
IsNumeric(x) ==
    \/ x.t = "num"
    \/ x.t = "str" /\ ParseFloat(FirstNumber(x.s)).ok

IsResolvableCurve(x) == x.t = "obj" /\ x.o.kind = "curve"

\* the elements the claim is about
Unusable(x) == ~IsNumeric(x) /\ ~IsResolvableCurve(x)

\* the elements handled so far
Handled == 1..(dhw_i - 1)

\* C8: every element of pipe_geom_ that is neither a number (or numeric/unit
\* text) nor a resolvable Rhino curve is handled by a UI warning: a Warning is
\* added for it, nothing is appended to any of the five lists for it, the
\* remaining elements are still processed, and no such element makes the
\* function raise.
C8_UnusableElementsWarned ==
    dhw_pc # "idle" =>
        /\ dhw_pc = "raised" => ~Unusable(pipe_geom_[dhw_i])
        /\ \A i \in Handled : Unusable(pipe_geom_[i]) => PipeWarning(i) \in dhw_messages
        /\ Len(rhino_values.lengths)
              <= Cardinality({i \in Handled : ~Unusable(pipe_geom_[i])})
        /\ Len(rhino_values.diams)
              <= Cardinality({i \in Handled : IsResolvableCurve(pipe_geom_[i])})
        /\ Len(rhino_values.insul_thicknesses) = Len(rhino_values.diams)
        /\ Len(rhino_values.insul_conductivities) = Len(rhino_values.diams)
        /\ Len(rhino_values.insul_reflectives) = Len(rhino_values.diams)
        /\ dhw_pc \in {"inputs", "done"} => Handled = 1..Len(pipe_geom_)

\* the same of the elements that are host objects
C8_UnusableObjectsWarned ==
    dhw_pc # "idle" =>
        /\ dhw_pc = "raised" => pipe_geom_[dhw_i].t # "obj"
        /\ \A i \in Handled :
              (Unusable(pipe_geom_[i]) /\ pipe_geom_[i].t = "obj")
                  => PipeWarning(i) \in dhw_messages
        /\ Len(rhino_values.lengths)
              <= Cardinality({i \in Handled : ~Unusable(pipe_geom_[i])})
        /\ Len(rhino_values.diams)
              <= Cardinality({i \in Handled : IsResolvableCurve(pipe_geom_[i])})

----------------------------------------------------------------------------
(* LBT2PH_CreateWindowReveals.py.  A room is the list of its faces, a face   *)
(* [id, apertures], an aperture [display_name, user_data, install_depth].   *)

\* the four reveal surfaces of a window: Bottom, Left, Top, Right
RevealSides == <<"Bottom", "Left", "Top", "Right">>

\* PHPP_Window.reveal_geometry (LBT2PH/windows.py)
reveal_geometry(aperture) ==
    [i \in 1..Len(RevealSides) |-> [window |-> aperture.display_name, side |-> RevealSides[i]]]

\* PHPP_Window.inset_window_surface (LBT2PH/windows.py): the window surface
\* pushed in by the window's install depth
inset_window_surface(aperture) ==
    [window |-> aperture.display_name, moved |-> aperture.install_depth]

\* the place in the try block of lines 77-82 at which the aperture raises
\* KeyError or TypeError, "" when it does not: user_data None or without
\* 'phpp' at the subscript of line 78, window data that reveal_geometry or
\* inset_window_surface cannot use at lines 79 and 80
RaisesAt(aperture) ==
    CASE aperture.user_data \in {"None", "no_phpp"} -> "from_dict"
      [] aperture.user_data = "bad_reveal"        -> "reveal_geometry"
      [] aperture.user_data = "bad_inset"         -> "inset_window_surface"
      [] OTHER                                    -> ""

\* DataTree.AddRange(items, GH_Path(path))
AddRange(tree, items, path) ==
    IF path \in DOMAIN tree THEN [tree EXCEPT ![path] = @ \o items]
    ELSE (path :> items) @@ tree

\* the faces of all rooms in the order of the loops of lines 63-64
AllFaces(rooms) == Flatten(rooms)

----------------------------------------------------------------------------
(* SpecReveals: one run of LBT2PH_CreateWindowReveals *)

MaxRevealRooms == 2
MaxRevealApertures == 2

WindowData == {"None", "no_phpp", "ok", "bad_reveal", "bad_inset"}

\* the rooms of a scene: room r has a face with the apertures given, and,
\* when r is even, a face without apertures before it
RevealRoom(r, data) ==
    LET face == [id |-> 10 * r + 2,
                 apertures |-> [a \in 1..Len(data) |->
                     [display_name |-> <<"W", DigitChars[r + 1], DigitChars[a + 1]>>,
                      user_data |-> data[a],
                      install_depth |-> r + a]]]
    IN  IF r % 2 = 0 THEN <<[id |-> 10 * r + 1, apertures |-> <<>>], face>> ELSE <<face>>

InitReveals ==
    /\ \E scene \in SeqsUpTo(SeqsUpTo(WindowData, MaxRevealApertures), MaxRevealRooms) :
          reveals_HB_rooms = [r \in 1..Len(scene) |-> RevealRoom(r, scene[r])]
    /\ moveWindows_ \in BOOLEAN
    /\ window_surrounds_ = EmptyDict
    /\ envelope_surfaces_ = <<>>
    /\ envelope_surfaces_punched = <<>>
    /\ window_names_ = <<>>
    /\ window_surfaces_ = <<>>
    /\ reveals_HB_rooms_ = PyNone
    /\ count = 0
    /\ reveals_face = 1
    /\ reveals_aperture = 0
    /\ reveals_pc = "faces"
    /\ ConvertIdle /\ ModelIdle /\ ShadingIdle /\ DHWIdle

\* lines 64-73: the next face
NextFace ==
    /\ reveals_pc = "faces"
    /\ reveals_aperture = 0
    /\ reveals_face <= Len(AllFaces(reveals_HB_rooms))
    /\ LET face == AllFaces(reveals_HB_rooms)[reveals_face]
       IN  /\ envelope_surfaces_punched' =
                 Append(envelope_surfaces_punched, [face |-> face.id, punched |-> TRUE])
           /\ envelope_surfaces_' =
                 Append(envelope_surfaces_, [face |-> face.id, punched |-> FALSE])
           /\ IF face.apertures = <<>>
              THEN reveals_face' = reveals_face + 1 /\ UNCHANGED reveals_aperture
              ELSE reveals_aperture' = 1 /\ UNCHANGED reveals_face
    /\ UNCHANGED <<varsRevealsInputs, window_surrounds_, window_names_, window_surfaces_,
                   reveals_HB_rooms_, count, reveals_pc>>
    /\ UNCHANGED <<varsConvert, varsModel, varsShading, varsDHW>>

\* lines 75-88: the next aperture of the face
NextAperture ==
    /\ reveals_pc = "faces"
    /\ reveals_aperture > 0
    /\ LET face     == AllFaces(reveals_HB_rooms)[reveals_face]
           aperture == face.apertures[reveals_aperture]
           raises   == RaisesAt(aperture)
       IN  /\ window_surrounds_' =
                 IF raises \in {"from_dict", "reveal_geometry"} THEN window_surrounds_
                 ELSE AddRange(window_surrounds_, reveal_geometry(aperture), count)
           /\ window_surfaces_' =
                 IF raises # "" THEN window_surfaces_
                 ELSE Append(window_surfaces_, inset_window_surface(aperture))
           /\ window_names_' =
                 IF raises # "" THEN window_names_
                 ELSE Append(window_names_, aperture.display_name)
           /\ count' = IF raises # "" THEN count ELSE count + 1
           /\ IF reveals_aperture < Len(face.apertures)
              THEN reveals_aperture' = reveals_aperture + 1 /\ UNCHANGED reveals_face
              ELSE reveals_aperture' = 0 /\ reveals_face' = reveals_face + 1
    /\ UNCHANGED <<varsRevealsInputs, envelope_surfaces_, envelope_surfaces_punched,
                   reveals_HB_rooms_, reveals_pc>>
    /\ UNCHANGED <<varsConvert, varsModel, varsShading, varsDHW>>

\* line 91
ReturnRooms ==
    /\ reveals_pc = "faces"
    /\ reveals_aperture = 0
    /\ reveals_face > Len(AllFaces(reveals_HB_rooms))
    /\ reveals_HB_rooms_' = reveals_HB_rooms
    /\ reveals_pc' = "done"
    /\ UNCHANGED <<varsRevealsInputs, window_surrounds_, envelope_surfaces_,
                   envelope_surfaces_punched, window_names_, window_surfaces_, count,
                   reveals_face, reveals_aperture>>
    /\ UNCHANGED <<varsConvert, varsModel, varsShading, varsDHW>>

NextReveals == NextFace \/ NextAperture \/ ReturnRooms

SpecReveals == InitReveals /\ [][NextReveals]_vars

\* the apertures of the input, in the order of the loops
AllApertures == Flatten([f \in 1..Len(AllFaces(reveals_HB_rooms)) |->
                            AllFaces(reveals_HB_rooms)[f].apertures])

ApertureNamed(name) ==
    CHOOSE a \in {AllApertures[i] : i \in 1..Len(AllApertures)} : a.display_name = name

\* C6: window_names_ and window_surfaces_ have the same length and order,
\* and window_surrounds_ has exactly one branch per listed window, branch i
\* holding the reveal surfaces of the aperture named window_names_[i] and of
\* no other, whatever apertures have no 'phpp' data or raise KeyError or
\* TypeError while they are processed.
C6_BranchPerListedWindow ==
    reveals_pc = "done" =>
        /\ Len(window_names_) = Len(window_surfaces_)
        /\ \A i \in 1..Len(window_names_) : window_surfaces_[i].window = window_names_[i]
        /\ DOMAIN window_surrounds_ = 0..(Len(window_names_) - 1)
        /\ \A i \in 1..Len(window_names_) :
              i - 1 \in DOMAIN window_surrounds_
                  => window_surrounds_[i - 1] = reveal_geometry(ApertureNamed(window_names_[i]))

\* the same when no aperture raises after its window record is built
C6_WhenOnlyFromDictRaises ==
    (/\ reveals_pc = "done"
     /\ \A i \in 1..Len(AllApertures) :
            RaisesAt(AllApertures[i]) \in {"", "from_dict", "reveal_geometry"}) =>
        /\ Len(window_names_) = Len(window_surfaces_)
        /\ \A i \in 1..Len(window_names_) : window_surfaces_[i].window = window_names_[i]
        /\ DOMAIN window_surrounds_ = 0..(Len(window_names_) - 1)
        /\ \A i \in 1..Len(window_names_) :
              window_surrounds_[i - 1] = reveal_geometry(ApertureNamed(window_names_[i]))

\* C7: moveWindows_ decides whether the window surfaces are moved: with
\* moveWindows_ True the surfaces of window_surfaces_ are pushed in by their
\* install depth, with moveWindows_ False they are not moved.
C7_MoveWindowsDecides ==
    reveals_pc = "done" =>
        \A i \in 1..Len(window_surfaces_) :
            window_surfaces_[i].moved =
                IF moveWindows_
                THEN ApertureNamed(window_surfaces_[i].window).install_depth
                ELSE 0

\* the same of the runs with moveWindows_ True
C7_WhenMoveWindowsTrue ==
    (reveals_pc = "done" /\ moveWindows_) =>
        \A i \in 1..Len(window_surfaces_) :
            window_surfaces_[i].moved =
                ApertureNamed(window_surfaces_[i].window).install_depth

====
